---- MODULE Spec2Model ----
(***************************************************************************)
(* Model of hdphmm/cluster.py: class Cluster.                              *)
(*                                                                         *)
(* Conventions                                                             *)
(*   - A Python value that may be None is a set: {} is None, {v} is v.     *)
(*   - A 2-D numpy array is a sequence of rows, a row a sequence of        *)
(*     entries; a 1-D array is a sequence of entries.                      *)
(*   - Parameter values are small integers standing for floats.  An entry  *)
(*     of the feature matrix X is the exact value num / sqrt(den2), kept   *)
(*     as the record [num, den2]; an un-standardized entry x is            *)
(*     [num |-> x, den2 |-> 1].                                            *)
(*   - np.linalg.eig is applied to upper-triangular matrices only (A is    *)
(*     upper triangular, sigma diagonal), whose eigenvalues are their      *)
(*     diagonal entries.                                                   *)
(***************************************************************************)
EXTENDS Integers, Sequences, FiniteSets, TLC

VARIABLES phase, call, error, attrs, cfg, nclusters, distance_threshold,
          blocks, X, labels, clusters, raw, fit_error

vars == <<phase, call, error, attrs, cfg, nclusters, distance_threshold,
          blocks, X, labels, clusters, raw, fit_error>>

(***************************************************************************)
(* Bounds                                                                  *)
(***************************************************************************)
MaxDim == 4

MaxSamples == 4

MaxRecords == 2

MaxLabel == 2

MaxListSamples == 2

MaxFitSamples == 3

(***************************************************************************)
(* Generic helpers                                                         *)
(***************************************************************************)
None == {}

Some(v) == {v}

The(s) == CHOOSE v \in s : TRUE

Range(f) == {f[i] : i \in DOMAIN f}

RECURSIVE SumSeq(_)
SumSeq(s) == IF s = <<>> THEN 0 ELSE Head(s) + SumSeq(Tail(s))

RECURSIVE SortSet(_)
SortSet(S) ==
    IF S = {} THEN <<>>
    ELSE LET lo == CHOOSE v \in S : \A w \in S : v <= w
         IN  <<lo>> \o SortSet(S \ {lo})

RECURSIVE SortAsc(_)
SortAsc(s) ==
    IF s = <<>> THEN <<>>
    ELSE LET k == CHOOSE i \in DOMAIN s : \A j \in DOMAIN s : s[i] <= s[j]
         IN  <<s[k]>> \o SortAsc([i \in 1..(Len(s) - 1) |-> IF i < k THEN s[i] ELSE s[i + 1]])

RECURSIVE Flatten(_)
Flatten(ss) == IF ss = <<>> THEN <<>> ELSE Head(ss) \o Flatten(Tail(ss))

(***************************************************************************)
(* numpy arrays as held by the constructor's local names                   *)
(***************************************************************************)
Unbound == [st |-> "unbound", ndim |-> 0, d |-> <<>>]

NoneArr == [st |-> "none", ndim |-> 0, d |-> <<>>]

Raised(e) == [st |-> e, ndim |-> 0, d |-> <<>>]

Arr1(d) == [st |-> "array", ndim |-> 1, d |-> d]

Arr2(d) == [st |-> "array", ndim |-> 2, d |-> d]

IsArr(a) == a.st = "array"

IsRaised(a) == a.st \notin {"unbound", "none", "array"}

NRows(a) == Len(a.d)

NCols(a) == IF a.ndim = 2 /\ a.d # <<>> THEN Len(a.d[1]) ELSE 0

\* a[:, np.newaxis]
NewAxis(a) == Arr2([s \in 1..Len(a.d) |-> <<a.d[s]>>])

\* np.concatenate((a, b)): stack the rows of b under those of a
ConcatRows(a, b) ==
    IF IsRaised(a) THEN a
    ELSE IF IsRaised(b) THEN b
    ELSE IF NCols(a) # NCols(b) THEN Raised("ValueError")
    ELSE Arr2(a.d \o b.d)

\* np.concatenate((a, b), axis=1): put the columns of b right of those of a
ConcatCols(a, b) ==
    IF NRows(a) # NRows(b) THEN Raised("ValueError")
    ELSE Arr2([s \in 1..NRows(a) |-> a.d[s] \o b.d[s]])

(***************************************************************************)
(* The params argument.  A record of the dict/list holds tensors of shape  *)
(* (m, m, n) for A and sigma and arrays of n samples for mu and T; the     *)
(* entries are fixed functions of their position so that every column and  *)
(* every row of X can be told apart.                                       *)
(***************************************************************************)
ParamNames == {"A", "sigma", "mu", "T"}

VecWidth == 2

TensorA(id, m, n) ==
    [i \in 1..m |-> [j \in 1..m |-> [s \in 1..n |->
        IF j < i THEN 0 ELSE (i + 2 * j) * s + id]]]

TensorSigma(id, m, n) ==
    [i \in 1..m |-> [j \in 1..m |-> [s \in 1..n |->
        IF j # i THEN 0 ELSE 20 + i + s * s + id]]]

ArrayMu(ndim, n) ==
    IF ndim = 1 THEN Arr1([s \in 1..n |-> 40 + s * s * s])
    ELSE Arr2([s \in 1..n |-> [k \in 1..VecWidth |-> 40 + 3 * k + s * s]])

ArrayT(ndim, n) ==
    IF ndim = 1 THEN Arr1([s \in 1..n |-> 60 + 2 * s * s])
    ELSE Arr2([s \in 1..n |-> [k \in 1..VecWidth |-> 60 + k * s + s * s * s]])

\* shape of a tensor
Dim(t) == Len(t)

Samples(t) == Len(t[1][1])

(***************************************************************************)
(* _flatten_A / _flatten_sigma                                             *)
(***************************************************************************)
\* np.moveaxis(A, -1, 0): one matrix per sample
MoveAxis(t) == [s \in 1..Samples(t) |-> [i \in 1..Dim(t) |-> [j \in 1..Dim(t) |-> t[i][j][s]]]]

\* np.linalg.eig(reordered)[0].real, on triangular matrices
EigReal(M) == [s \in 1..Len(M) |-> [k \in 1..Len(M[s]) |-> M[s][k][k]]]

\* A: concatenate((square(eigs[:, :2]).sum(axis=1)[:, newaxis], eigs[:, [2]]), axis=1)
ConvertRzA(eigs) ==
    IF \E s \in DOMAIN eigs : Len(eigs[s]) < 3 THEN Raised("IndexError")
    ELSE Arr2([s \in DOMAIN eigs |->
                 <<eigs[s][1] * eigs[s][1] + eigs[s][2] * eigs[s][2], eigs[s][3]>>])

\* sigma: concatenate((eigs[:, :2].sum(axis=1)[:, newaxis], eigs[:, [2]]), axis=1)
ConvertRzSigma(eigs) ==
    IF \E s \in DOMAIN eigs : Len(eigs[s]) < 3 THEN Raised("IndexError")
    ELSE Arr2([s \in DOMAIN eigs |-> <<eigs[s][1] + eigs[s][2], eigs[s][3]>>])

\* np.array([np.diag(A[..., a]) for a in range(A.shape[2])])
Diags(t) == Arr2([s \in 1..Samples(t) |-> [k \in 1..Dim(t) |-> t[k][k][s]]])

\* A.reshape((A.shape[0]*A.shape[1], A.shape[2])).T
ReshapeT(t) ==
    Arr2([s \in 1..Samples(t) |-> [c \in 1..(Dim(t) * Dim(t)) |->
            t[((c - 1) \div Dim(t)) + 1][((c - 1) % Dim(t)) + 1][s]]])

\* diags tested before eigs
_flatten_A_diags_first(A, eigs, diags, convert_rz) ==
    IF diags THEN Diags(A)
    ELSE IF eigs THEN
        IF convert_rz THEN ConvertRzA(EigReal(MoveAxis(A)))
        ELSE Arr2(EigReal(MoveAxis(A)))
    ELSE ReshapeT(A)

_flatten_A(A, eigs, diags, convert_rz) ==
    IF eigs THEN
        IF convert_rz THEN ConvertRzA(EigReal(MoveAxis(A)))
        ELSE Arr2(EigReal(MoveAxis(A)))
    ELSE IF diags THEN Diags(A)
    ELSE ReshapeT(A)

_flatten_sigma(sigma, eigs, diags, convert_rz) ==
    IF eigs THEN
        IF convert_rz THEN ConvertRzSigma(EigReal(MoveAxis(sigma)))
        ELSE Arr2(EigReal(MoveAxis(sigma)))
    ELSE IF diags THEN Diags(sigma)
    ELSE ReshapeT(sigma)

(***************************************************************************)
(* Per-column standardization (agglomerative only)                         *)
(***************************************************************************)
\* hdphmm.utils.stats.remove_outliers: drop the extreme values of a column
remove_outliers(col) ==
    IF Len(col) < 3 THEN col
    ELSE SubSeq(SortAsc(col), 2, Len(col) - 1)

\* (x - trimmed.mean()) / trimmed.std(), exactly: with n, s, q the size, sum
\* and sum of squares of the trimmed column it is (x*n - s) / sqrt(n*q - s*s)
StandardizeColumn(col) ==
    LET trimmed == remove_outliers(col)
        n == Len(trimmed)
        s == SumSeq(trimmed)
        q == SumSeq([i \in DOMAIN trimmed |-> trimmed[i] * trimmed[i]])
    IN  [i \in DOMAIN col |-> [num |-> col[i] * n - s, den2 |-> n * q - s * s]]

Column(a, c) == [s \in 1..NRows(a) |-> a.d[s][c]]

\* for d in range(self.X.shape[1]): self.X[:, d] -= mean; self.X[:, d] /= std
Standardize(a) ==
    LET cols == [c \in 1..NCols(a) |-> StandardizeColumn(Column(a, c))]
    IN  [s \in 1..NRows(a) |-> [c \in 1..NCols(a) |-> cols[c][s]]]

\* X left as built
Plain(a) == [s \in 1..NRows(a) |-> [c \in 1..NCols(a) |-> [num |-> a.d[s][c], den2 |-> 1]]]

\* `algorithm is 'agglomerative'`: an identity test against the literal; a
\* string equal to the literal is the same object only when it is interned
IsAgglomerativeLiteral(algorithm, interned) ==
    algorithm = "agglomerative" /\ interned

(***************************************************************************)
(* Errors                                                                  *)
(***************************************************************************)
Algorithms == {"bayesian", "agglomerative"}

Err(type, msg, value, choices) ==
    [type |-> type, msg |-> msg, value |-> value, choices |-> choices]

UnsupportedAlgorithm(algorithm) ==
    Err("Exception", "Clustering algorithm not implemented", algorithm, Algorithms)

UnsupportedInput ==
    Err("Exception", "Input data type not recognized", "", {"list", "dict"})

Builtin(type) == Err(type, "", "", {})

(***************************************************************************)
(* __init__: configuration                                                 *)
(***************************************************************************)
\* a lookup that falls back to a default backend
LookupAlgorithmDefaulting(algorithm) == TRUE

\* cluster_fxn[algorithm] succeeds
LookupAlgorithm(algorithm) == algorithm \in Algorithms

ConfigAttrs ==
    {"cluster_fxn", "means", "ncomponents", "max_iter",
     "weight_concentration_prior_type", "gamma", "mean_precision_prior",
     "init_params", "eigs", "diags", "nclusters", "convert_rz",
     "distance_threshold", "linkage"}

UnsetConfig ==
    [cluster_fxn |-> {}, means |-> {}, ncomponents |-> {}, max_iter |-> {},
     weight_concentration_prior_type |-> {}, gamma |-> {},
     mean_precision_prior |-> {}, init_params |-> {}, eigs |-> {},
     diags |-> {}, convert_rz |-> {}, linkage |-> {}]

Config(a) ==
    [cluster_fxn |-> {a.algorithm}, means |-> {a.means},
     ncomponents |-> {a.ncomponents}, max_iter |-> {1500},
     weight_concentration_prior_type |-> {"dirichlet_process"}, gamma |-> {},
     mean_precision_prior |-> {1}, init_params |-> {"random"},
     eigs |-> {a.eigs}, diags |-> {a.diags}, convert_rz |-> {a.convert_rz},
     linkage |-> {a.linkage}]

\* the threshold argument stored whatever nclusters is
InitDistanceThresholdKept(ncl, dt) == dt

\* if self.nclusters is not None: None, else the argument
InitDistanceThreshold(ncl, dt) == IF ncl # None THEN None ELSE dt

(***************************************************************************)
(* __init__: feature blocks                                                *)
(***************************************************************************)
Locals(A, sigma, mu, T_, err) ==
    [A |-> A, sigma |-> sigma, mu |-> mu, T_ |-> T_, err |-> err]

\* np.copy(params['mu']) / np.copy(params['T']), a 1-D array given a feature axis
VecBlock(present, arr) ==
    IF ~present THEN NoneArr
    ELSE IF arr.ndim = 1 THEN NewAxis(arr)
    ELSE arr

DictBranch(a) ==
    LET n  == a.ns[1]
        A0 == IF "A" \in a.keys
              THEN _flatten_A(TensorA(1, a.m, n), a.eigs, a.diags, a.convert_rz)
              ELSE NoneArr
        S0 == IF "sigma" \in a.keys
              THEN _flatten_sigma(TensorSigma(1, a.m, n), a.eigs, a.diags, a.convert_rz)
              ELSE NoneArr
    IN  IF IsRaised(A0) THEN Locals(NoneArr, NoneArr, Unbound, Unbound, Some(Builtin(A0.st)))
        ELSE IF IsRaised(S0) THEN Locals(A0, NoneArr, Unbound, Unbound, Some(Builtin(S0.st)))
        ELSE Locals(A0, S0,
                    VecBlock("mu" \in a.keys, ArrayMu(a.mu_ndim, n)),
                    VecBlock("T" \in a.keys, ArrayT(a.T_ndim, n)),
                    None)

RECURSIVE StackA(_, _)
StackA(a, r) ==
    LET this == _flatten_A(TensorA(r, a.m, a.ns[r]), a.eigs, a.diags, a.convert_rz)
    IN  IF r = 1 THEN this ELSE ConcatRows(StackA(a, r - 1), this)

RECURSIVE StackSigma(_, _)
StackSigma(a, r) ==
    LET this == _flatten_sigma(TensorSigma(r, a.m, a.ns[r]), a.eigs, a.diags, a.convert_rz)
    IN  IF r = 1 THEN this ELSE ConcatRows(StackSigma(a, r - 1), this)

\* mu and T_ are not assigned on this path
ListBranch(a) ==
    LET A0 == StackA(a, Len(a.ns))
        S0 == StackSigma(a, Len(a.ns))
    IN  IF IsRaised(A0) THEN Locals(Unbound, Unbound, Unbound, Unbound, Some(Builtin(A0.st)))
        ELSE IF IsRaised(S0) THEN Locals(A0, Unbound, Unbound, Unbound, Some(Builtin(S0.st)))
        ELSE Locals(A0, S0, Unbound, Unbound, None)

FeatureBlocks(a) ==
    IF a.kind = "dict" THEN DictBranch(a)
    ELSE IF a.kind = "list" THEN ListBranch(a)
    ELSE Locals(Unbound, Unbound, Unbound, Unbound, Some(UnsupportedInput))

(***************************************************************************)
(* __init__: merge of the blocks into self.X                               *)
(***************************************************************************)
Merged(x, err) == [X |-> x, err |-> err]

Axis2(b) == IF b.ndim < 2 THEN NewAxis(b) ELSE b

\* the two matrix blocks merged in the other order
MergeMatricesSwapped(A, sigma) ==
    IF A.st # "none" THEN
        IF sigma.st # "none" THEN ConcatCols(Axis2(sigma), Axis2(A))
        ELSE Axis2(A)
    ELSE IF sigma.st # "none" THEN Axis2(sigma)
    ELSE Unbound

\* lines 108-125: A and sigma
MergeMatrices(A, sigma) ==
    IF A.st # "none" THEN
        IF sigma.st # "none" THEN ConcatCols(Axis2(A), Axis2(sigma))
        ELSE Axis2(A)
    ELSE IF sigma.st # "none" THEN Axis2(sigma)
    ELSE Unbound

\* lines 127-131 and 133-137: append block b; `alone` is the test that every
\* earlier block is None
AppendBlock(m, b, alone) ==
    IF m.err # None THEN m
    ELSE IF b.st = "unbound" THEN Merged(m.X, Some(Builtin("UnboundLocalError")))
    ELSE IF b.st = "none" THEN m
    ELSE IF alone THEN Merged(b, None)
    ELSE LET x == ConcatCols(m.X, b)
         IN  IF IsRaised(x) THEN Merged(m.X, Some(Builtin(x.st))) ELSE Merged(x, None)

MergeBlocks(loc) ==
    LET am == MergeMatrices(loc.A, loc.sigma)
        m0 == IF IsRaised(am) THEN Merged(Unbound, Some(Builtin(am.st))) ELSE Merged(am, None)
        m1 == AppendBlock(m0, loc.mu, loc.A.st = "none" /\ loc.sigma.st = "none")
    IN  IF m1.err # None THEN m1
        ELSE AppendBlock(m1, loc.T_,
                    loc.A.st = "none" /\ loc.sigma.st = "none" /\ loc.mu.st = "none")

(***************************************************************************)
(* __init__ as a whole                                                     *)
(***************************************************************************)
NoBlocks == Locals(Unbound, Unbound, Unbound, Unbound, None)

Object(ph, err, at, c, ncl, dt, loc, x) ==
    [phase |-> ph, error |-> err, attrs |-> at, cfg |-> c, nclusters |-> ncl,
     distance_threshold |-> dt, blocks |-> loc, X |-> x]

__init__(a) ==
    IF ~LookupAlgorithm(a.algorithm)
    THEN Object("failed", Some(UnsupportedAlgorithm(a.algorithm)), {}, UnsetConfig,
                None, None, NoBlocks, <<>>)
    ELSE
    LET dt  == InitDistanceThreshold(a.nclusters, a.distance_threshold)
        loc == FeatureBlocks(a)
        mrg == MergeBlocks(loc)
        xat == IF IsArr(mrg.X) THEN {"X"} ELSE {}
    IN  IF loc.err # None
        THEN Object("failed", loc.err, ConfigAttrs, Config(a), a.nclusters, dt, loc, <<>>)
        ELSE IF mrg.err # None
        THEN Object("failed", mrg.err, ConfigAttrs \cup xat, Config(a), a.nclusters, dt,
                    loc, IF IsArr(mrg.X) THEN Plain(mrg.X) ELSE <<>>)
        ELSE IF IsAgglomerativeLiteral(a.algorithm, a.interned)
        THEN IF ~IsArr(mrg.X)
             THEN Object("failed", Some(Builtin("AttributeError")), ConfigAttrs,
                         Config(a), a.nclusters, dt, loc, <<>>)
             ELSE Object("ready", None, ConfigAttrs \cup {"X", "labels", "clusters"},
                         Config(a), a.nclusters, dt, loc, Standardize(mrg.X))
        ELSE Object("ready", None, ConfigAttrs \cup xat \cup {"labels", "clusters"},
                    Config(a), a.nclusters, dt, loc,
                    IF IsArr(mrg.X) THEN Plain(mrg.X) ELSE <<>>)

(***************************************************************************)
(* fit                                                                     *)
(***************************************************************************)
\* _agglomerative / _bayesian: the backend instance and the arguments it got
_agglomerative(ncl, dt, c) ==
    [kind |-> "agglomerative", n_clusters |-> ncl, distance_threshold |-> dt,
     linkage |-> c.linkage, n_components |-> None, max_iter |-> None]

_bayesian(ncl, dt, c) ==
    [kind |-> "bayesian", n_clusters |-> None, distance_threshold |-> None,
     linkage |-> None, n_components |-> c.ncomponents, max_iter |-> c.max_iter]

cluster_fxn(ncl, dt, c) ==
    IF c.cluster_fxn = {"agglomerative"} THEN _agglomerative(ncl, dt, c)
    ELSE _bayesian(ncl, dt, c)

\* np.unique(self.labels): the distinct labels in increasing order
Unique(ls) == SortSet(Range(ls))

\* a remap that ranks the labels in decreasing order
MapStatesDescending(ls) ==
    LET u == Unique(ls)
    IN  [l \in Range(ls) |-> Len(u) - (CHOOSE i \in DOMAIN u : u[i] = l)]

\* map_states[label] = i for i, label in enumerate(unique_labels)
MapStates(ls) ==
    LET u == Unique(ls)
    IN  [l \in Range(ls) |-> (CHOOSE i \in DOMAIN u : u[i] = l) - 1]

\* a remap that shifts the labels to start at zero and keeps the gaps
RelabelShifted(ls) == [i \in DOMAIN ls |-> ls[i] - Unique(ls)[1]]

\* [map_states[l] for l in self.labels]
Relabel(ls) == [i \in DOMAIN ls |-> MapStates(ls)[ls[i]]]

\* unique_labels.size
ClusterCount(ls) == Len(Unique(ls))

\* the raw labels a backend may return: non-contiguous, negative included
RawLabels == (-1..MaxLabel) \ {1}

RECURSIVE Seqs(_, _)
Seqs(S, n) ==
    IF n = 0 THEN {<<>>}
    ELSE {<<v>> \o t : v \in S, t \in Seqs(S, n - 1)}

\* self.clusters.fit_predict(self.X): raises, or one raw label per row
FitPredict(x) ==
    {[ok |-> FALSE, raw |-> <<>>]} \cup
    {[ok |-> TRUE, raw |-> r] : r \in Seqs(RawLabels, Len(x))}

(***************************************************************************)
(* Arguments of the constructor                                            *)
(***************************************************************************)
Args(algs, kinds, keysets, ms, nss, modes, ndims, ncls, dts) ==
    [algorithm : algs, interned : BOOLEAN, kind : kinds, keys : keysets,
     m : ms, ns : nss, eigs : modes, diags : modes, convert_rz : modes,
     mu_ndim : ndims, T_ndim : ndims, nclusters : ncls, distance_threshold : dts,
     means : {FALSE}, ncomponents : {10}, linkage : {"ward"}]

SampleCounts(k) == Seqs(1..MaxSamples, k)

\* an argument that no step reads is held at one value
Canonical(a) ==
    /\ a.algorithm # "agglomerative" => a.interned
    /\ "mu" \notin a.keys => a.mu_ndim = 1
    /\ "T" \notin a.keys => a.T_ndim = 1
    /\ a.keys \cap {"A", "sigma"} = {} => a.m = 1

\* single record: every key set, dimension, sample count and reduction mode
FeatureArgs ==
    {a \in Args(Algorithms, {"dict"}, SUBSET ParamNames, 1..MaxDim,
                SampleCounts(1), BOOLEAN, 1..2, {None, Some(2)}, {Some(2)}) :
        Canonical(a)}

\* single record: every algorithm name and stopping argument
ConfigArgs ==
    {a \in Args(Algorithms \cup {"unknown"}, {"dict"}, {{"A", "sigma"}}, {2},
                SampleCounts(1), {FALSE}, {1}, {None, Some(2)}, {Some(1), Some(2)}) :
        Canonical(a)}

DictArgs == FeatureArgs \cup ConfigArgs

ListArgs ==
    {a \in Args(Algorithms, {"list"}, {{"A", "sigma"}}, 1..MaxDim,
                UNION {Seqs(1..MaxListSamples, k) : k \in 1..MaxRecords}, BOOLEAN, {1},
                {None, Some(2)}, {Some(2)}) :
        Canonical(a)}

OtherArgs ==
    {a \in Args(Algorithms \cup {"unknown"}, {"tuple"}, {{}}, {1}, SampleCounts(1),
                {FALSE}, {1}, {None, Some(2)}, {Some(2)}) :
        Canonical(a)}

AllArgs == DictArgs \cup ListArgs \cup OtherArgs

\* the arguments used where the life of a constructed object is explored
FitArgs ==
    {a \in Args(Algorithms, {"dict"}, {{"A", "sigma"}, {"mu"}, {}}, 1..2,
                Seqs(1..MaxFitSamples, 1), {FALSE}, {1}, {None, Some(2)}, {Some(2)}) :
        Canonical(a) /\ (a.keys = {"A", "sigma"} => a.m = 2)}

NoCall == CHOOSE a \in OtherArgs : TRUE

(***************************************************************************)
(* Actions                                                                 *)
(***************************************************************************)
Init ==
    /\ phase = "new"
    /\ call = NoCall
    /\ error = None
    /\ attrs = {}
    /\ cfg = UnsetConfig
    /\ nclusters = None
    /\ distance_threshold = None
    /\ blocks = NoBlocks
    /\ X = <<>>
    /\ labels = None
    /\ clusters = None
    /\ raw = <<>>
    /\ fit_error = None

Construct(a) ==
    /\ phase = "new"
    /\ LET o == __init__(a)
       IN  /\ phase' = o.phase
           /\ call' = a
           /\ error' = o.error
           /\ attrs' = o.attrs
           /\ cfg' = o.cfg
           /\ nclusters' = o.nclusters
           /\ distance_threshold' = o.distance_threshold
           /\ blocks' = o.blocks
           /\ X' = o.X
    /\ UNCHANGED <<labels, clusters, raw, fit_error>>

Fit ==
    /\ phase = "ready"
    /\ clusters' = Some(cluster_fxn(nclusters, distance_threshold, cfg))
    /\ IF "X" \notin attrs
       THEN /\ fit_error' = Some(Builtin("AttributeError"))
            /\ UNCHANGED <<labels, nclusters, raw>>
       ELSE \E out \in FitPredict(X) :
              IF out.ok
              THEN /\ labels' = Some(Relabel(out.raw))
                   /\ nclusters' = Some(ClusterCount(out.raw))
                   /\ raw' = out.raw
                   /\ fit_error' = None
              ELSE /\ fit_error' = Some(Builtin("BackendError"))
                   /\ UNCHANGED <<labels, nclusters, raw>>
    /\ UNCHANGED <<phase, call, error, attrs, cfg, distance_threshold, blocks, X>>

ConstructAny ==
    /\ phase = "new"
    /\ \E a \in AllArgs : Construct(a)

ConstructForFit ==
    /\ phase = "new"
    /\ \E a \in FitArgs : Construct(a)

NextBuild == ConstructAny

SpecBuild == Init /\ [][NextBuild]_vars

Next == ConstructForFit \/ Fit

Spec == Init /\ [][Next]_vars

(***************************************************************************)
(* Properties of fit and of the label remap                                *)
(***************************************************************************)
Fitted == phase = "ready" /\ labels # None

\* C1: after a successful fit the distinct values of labels are exactly
\* 0..k-1, k being the stored nclusters, k is the number of distinct raw
\* labels, and labels has one entry per row of X
C1_LabelsDense ==
    Fitted =>
        /\ nclusters # None
        /\ Range(The(labels)) = 0..(The(nclusters) - 1)
        /\ The(nclusters) = Cardinality(Range(raw))
        /\ Len(The(labels)) = Len(X)

C1_Witness ==
    /\ Fitted
    /\ Range(raw) = {-1, 2}
    /\ Len(raw) >= 3

\* C2: the remap sends each raw label to its 0-based rank among the distinct
\* raw labels; it keeps equality and order of the labels of any two rows
C2_RankPreserving ==
    Fitted =>
        \A i \in DOMAIN raw :
            /\ The(labels)[i] = Cardinality({u \in Range(raw) : u < raw[i]})
            /\ \A j \in DOMAIN raw :
                /\ (The(labels)[i] = The(labels)[j]) <=> (raw[i] = raw[j])
                /\ (The(labels)[i] < The(labels)[j]) <=> (raw[i] < raw[j])

C2_Witness ==
    /\ Fitted
    /\ Len(raw) >= 3
    /\ raw[1] = 2
    /\ raw[2] = -1
    /\ raw[3] = 2

\* C7: no fit() changes X or a configuration value fixed at construction,
\* nclusters as supplied by the caller included
C7_FitFrame ==
    [][phase = "ready" =>
          /\ X' = X
          /\ cfg' = cfg
          /\ distance_threshold' = distance_threshold
          /\ nclusters' = nclusters]_vars

\* C10: an agglomerative backend is never instantiated with both, or with
\* neither, of n_clusters and distance_threshold
C10_ExclusiveStopping ==
    (clusters # None /\ The(clusters).kind = "agglomerative") =>
        (The(clusters).n_clusters = None) # (The(clusters).distance_threshold = None)

(***************************************************************************)
(* Properties of the constructor                                           *)
(***************************************************************************)
Constructed == phase = "ready"

Returned == phase # "new"

\* C3: right after a successful construction distance_threshold is None when
\* nclusters was supplied and is the argument otherwise, so exactly one of
\* the two stopping parameters is set
C3_StoppingParameters ==
    Constructed =>
        /\ call.nclusters # None => distance_threshold = None
        /\ call.nclusters = None => distance_threshold = call.distance_threshold
        /\ (nclusters = None) # (distance_threshold = None)

C3_Witness ==
    /\ Constructed
    /\ call.nclusters = Some(2)
    /\ call.distance_threshold = Some(1)
    /\ distance_threshold = None

\* C4: an algorithm name other than the two supported ones fails with the
\* unsupported-algorithm error, which names the value and the two choices,
\* before anything is set on the object and before params is looked at
C4_UnsupportedAlgorithmFirst ==
    (Returned /\ call.algorithm \notin {"bayesian", "agglomerative"}) =>
        /\ phase = "failed"
        /\ error # None
        /\ The(error).type = "Exception"
        /\ The(error).msg = "Clustering algorithm not implemented"
        /\ The(error).value = call.algorithm
        /\ The(error).choices = {"bayesian", "agglomerative"}
        /\ attrs = {}
        /\ cfg = UnsetConfig
        /\ nclusters = None
        /\ distance_threshold = None
        /\ X = <<>>
        /\ labels = None
        /\ \A p \in {"A", "sigma", "mu", "T_"} : blocks[p].st = "unbound"

C4_Witness ==
    /\ phase = "failed"
    /\ call.algorithm = "unknown"
    /\ call.kind = "tuple"
    /\ attrs = {}

\* the rows of the [A | sigma] blocks of the records of a list, in list order
C5_Stacked ==
    Flatten([r \in DOMAIN call.ns |->
        [s \in 1..call.ns[r] |->
            _flatten_A(TensorA(r, call.m, call.ns[r]),
                       call.eigs, call.diags, call.convert_rz).d[s]
            \o _flatten_sigma(TensorSigma(r, call.m, call.ns[r]),
                              call.eigs, call.diags, call.convert_rz).d[s]]])

\* C5: constructing with a non-empty list of records holding A and sigma
\* completes and X is the per-record [A | sigma] rows stacked in list order
C5_ListBuilds ==
    (Returned /\ call.kind = "list") =>
        /\ phase = "ready"
        /\ error = None
        /\ Len(X) = SumSeq(call.ns)
        /\ X \in {Plain(Arr2(C5_Stacked)), Standardize(Arr2(C5_Stacked))}

\* the X held after construction with 'bayesian' and the same params
C6_BayesianX ==
    LET xb == __init__([call EXCEPT !.algorithm = "bayesian", !.interned = TRUE]).X
    IN  Arr2([s \in DOMAIN xb |-> [c \in DOMAIN xb[s] |-> xb[s][c].num]])

\* C6: with an algorithm argument equal to 'agglomerative' X is the
\* column-standardized X of 'bayesian'; with 'bayesian' X is left as built
C6_StandardizedIffAgglomerative ==
    Constructed =>
        /\ call.algorithm = "agglomerative" => X = Standardize(C6_BayesianX)
        /\ call.algorithm = "bayesian" => X = Plain(C6_BayesianX)

\* the feature blocks in the fixed order A, sigma, mu, T
C8_Order == <<blocks.A, blocks.sigma, blocks.mu, blocks.T_>>

C8_Names == <<"A", "sigma", "mu", "T">>

\* the columns of the present blocks side by side
C8_Concatenation ==
    Arr2([s \in 1..call.ns[1] |->
            Flatten([k \in 1..4 |-> IF C8_Names[k] \in call.keys
                                    THEN C8_Order[k].d[s] ELSE <<>>])])

C8_VecWidth(ndim) == IF ndim = 1 THEN 1 ELSE VecWidth

\* C8: for a single record X is the column-wise concatenation of exactly the
\* present blocks in the order A, sigma, mu, T, for each of the 15 non-empty
\* subsets; a 1-D block is one column; a flattened (m, m, n) matrix parameter
\* gives m*m columns; X has n rows
C8_SingleRecordConcatenation ==
    /\ (Returned /\ call.kind = "dict" /\ call.algorithm \in Algorithms
          /\ call.keys # {} /\ ~call.eigs) => Constructed
    /\ (Constructed /\ call.kind = "dict" /\ call.keys # {}) =>
        /\ \A k \in 1..4 : IsArr(C8_Order[k]) <=> C8_Names[k] \in call.keys
        /\ \A k \in 1..4 : IsArr(C8_Order[k]) =>
              C8_Order[k].ndim = 2 /\ NRows(C8_Order[k]) = call.ns[1]
        /\ "mu" \in call.keys =>
              /\ NCols(blocks.mu) = C8_VecWidth(call.mu_ndim)
              /\ \A t \in 1..call.ns[1] :
                    blocks.mu.d[t] = IF call.mu_ndim = 1
                                     THEN <<ArrayMu(1, call.ns[1]).d[t]>>
                                     ELSE ArrayMu(2, call.ns[1]).d[t]
        /\ "T" \in call.keys =>
              /\ NCols(blocks.T_) = C8_VecWidth(call.T_ndim)
              /\ \A t \in 1..call.ns[1] :
                    blocks.T_.d[t] = IF call.T_ndim = 1
                                     THEN <<ArrayT(1, call.ns[1]).d[t]>>
                                     ELSE ArrayT(2, call.ns[1]).d[t]
        /\ ("A" \in call.keys /\ ~call.eigs /\ ~call.diags) =>
              /\ NCols(blocks.A) = call.m * call.m
              /\ \A t \in 1..call.ns[1] : \A i, j \in 1..call.m :
                    blocks.A.d[t][(i - 1) * call.m + j]
                        = TensorA(1, call.m, call.ns[1])[i][j][t]
        /\ ("sigma" \in call.keys /\ ~call.eigs /\ ~call.diags) =>
              /\ NCols(blocks.sigma) = call.m * call.m
              /\ \A t \in 1..call.ns[1] : \A i, j \in 1..call.m :
                    blocks.sigma.d[t][(i - 1) * call.m + j]
                        = TensorSigma(1, call.m, call.ns[1])[i][j][t]
        /\ Len(X) = call.ns[1]
        /\ \A t \in 1..call.ns[1] :
              Len(X[t]) = SumSeq([k \in 1..4 |-> IF C8_Names[k] \in call.keys
                                                 THEN NCols(C8_Order[k]) ELSE 0])
        /\ X \in {Plain(C8_Concatenation), Standardize(C8_Concatenation)}

C8_Witness ==
    /\ Constructed
    /\ call.kind = "dict"
    /\ call.keys = {"A", "sigma"}
    /\ call.m = 2
    /\ ~call.eigs /\ ~call.diags
    /\ call.algorithm = "agglomerative"
    /\ call.nclusters # None
    /\ Len(X) = MaxSamples
    /\ Len(X[1]) = 8

\* the matrix blocks a call builds, with the rows it should have
C9_MatrixBlocks ==
    {b \in {[name |-> "A", arr |-> blocks.A], [name |-> "sigma", arr |-> blocks.sigma]} :
        b.name \in call.keys}

====
